---- MODULE Spec2Model ----
(***************************************************************************)
(* Model of src/src/contexts/AuthContext.tsx: the AuthProvider component.  *)
(*                                                                         *)
(* Each session is one mounted AuthProvider (one page load in one host     *)
(* container).  All sessions talk to the same remote `users` table.        *)
(* A remote call is three steps: the request is issued by the client, it   *)
(* is served by the backend, and its response is returned to the awaiting  *)
(* continuation.  The detached update of updateUserPoints has no           *)
(* continuation: it is issued and later applied or lost.                   *)
(*                                                                         *)
(* Spec is one mounted provider through its whole life (bootstrap, then    *)
(* the consumers' calls); SpecBoot is every session bootstrapping against  *)
(* the same table.                                                         *)
(*                                                                         *)
(* `user` is the React state cell; `snap` is the value of `user` captured  *)
(* by the render whose refreshUser / updateUserPoints closures the         *)
(* consumers currently hold.  Render copies the state into the closures.   *)
(***************************************************************************)
EXTENDS Integers, Sequences, FiniteSets, TLC

\* ---------------------------------------------------------------- bounds
NumSessions == 2
MaxUpdates == 2
MaxRefresh == 1

Sessions == 1..NumSessions
Deltas == {-120, 0, 120}

\* ---------------------------------------------------------------- values
\* null / undefined of the source, as a record so that it compares with records
Null == [null |-> TRUE]
\* an optional string the host left out, and the NULL the table stores for it
Undefined == "<undefined>"
DbNull == "<null>"
\* tgUser.id is tested for truthiness: 0 stands for a missing (or zero) id
NoId == 0

Ana == [id |-> 1, username |-> "ana", first_name |-> "Ana", last_name |-> Undefined]
Ann == [id |-> 1, username |-> Undefined, first_name |-> "Ann", last_name |-> "Lee"]
Bob == [id |-> 2, username |-> "bob", first_name |-> "Bob", last_name |-> Undefined]
Anon == [id |-> NoId, username |-> "anon", first_name |-> "Anon", last_name |-> Undefined]

\* window.Telegram: absent, or a WebApp whose initDataUnsafe.user may be missing
NoHost == [webApp |-> FALSE]
Host(u) == [webApp |-> TRUE, user |-> u]
Hosts == {NoHost, Host(Null), Host(Anon), Host(Ana), Host(Ann), Host(Bob)}

Row(i, t, un, fn, ln, p, l) ==
    [id |-> i, telegram_id |-> t, username |-> un, first_name |-> fn,
     last_name |-> ln, points |-> p, level |-> l]

\* the users table when the sessions start
InitialStores ==
    { {},
      {Row(7, 1, "ana", "Ana", DbNull, 250, 3)},
      {Row(7, 1, "ana", "Ana", DbNull, 250, 1)} }

VARIABLES
    host,          \* host[s]: window.Telegram of session s
    pc,            \* pc[s]: position of initializeAuth / fetchOrCreateUser
    fetched,       \* fetched[s]: {data: existingUser, error: fetchError}
    created,       \* created[s]: {data: newUser, error: createError}
    insertReq,     \* insertReq[s]: the row submitted by .insert(...)
    user,          \* useState: user
    telegramUser,  \* useState: telegramUser
    loading,       \* useState: loading
    snap,          \* `user` as captured by the closures in the context value
    tgCalls,       \* tgCalls[s]: host calls made (ready, expand)
    store,         \* the remote users table
    writes,        \* detached .update() requests in flight
    reads,         \* reads[s]: refreshUser selects in flight (the id asked for)
    readResps,     \* readResps[s]: refreshUser responses not yet returned
    calls,         \* calls[s]: the consumers' calls so far, counted per function
    lastCall,      \* lastCall[s]: the consumers' latest call and its argument
    issued,        \* issued[s]: remote requests issued, per kind
    log,           \* log[s]: console output (log, warn, error)
    doneBefore,    \* doneBefore[s]: sessions resolved when s ran initializeAuth
    store0         \* the users table as it was when the sessions started

vars == <<host, pc, fetched, created, insertReq, user, telegramUser, loading,
          snap, tgCalls, store, writes, reads, readResps, calls, lastCall,
          issued, log, doneBefore, store0>>

\* ---------------------------------------------------------------- helpers
Pending == [data |-> Null, error |-> FALSE, settled |-> FALSE]
Ok(d) == [data |-> d, error |-> FALSE, settled |-> TRUE]
Err == [data |-> Null, error |-> TRUE, settled |-> TRUE]

NoneIssued == [lookup |-> 0, create |-> 0, read |-> 0, write |-> 0]
UpdateCall(d) == [op |-> "update", arg |-> d]
RefreshCall == [op |-> "refresh", arg |-> 0]
NoCall == [op |-> "none", arg |-> 0]
NoCalls == [update |-> 0, refresh |-> 0]

RECURSIVE SumOver(_, _)
SumOver(f, S) ==
    IF S = {} THEN 0
    ELSE LET x == CHOOSE y \in S : TRUE IN f[x] + SumOver(f, S \ {x})

UpdateCalls == SumOver([s \in Sessions |-> calls[s].update], Sessions)
RefreshCalls == SumOver([s \in Sessions |-> calls[s].refresh], Sessions)

RemoveAt(q, i) == [j \in 1..(Len(q) - 1) |-> IF j < i THEN q[j] ELSE q[j + 1]]

\* the state after the first render of the providers in `mounted`
InitWith(mounted) ==
    /\ host \in {h \in [Sessions -> Hosts] :
                    \A s \in Sessions \ mounted : h[s] = NoHost}
    /\ store \in InitialStores
    /\ pc = [s \in Sessions |-> IF s \in mounted THEN "mount" ELSE "unmounted"]
    /\ fetched = [s \in Sessions |-> Pending]
    /\ created = [s \in Sessions |-> Pending]
    /\ insertReq = [s \in Sessions |-> Null]
    /\ user = [s \in Sessions |-> Null]
    /\ telegramUser = [s \in Sessions |-> Null]
    /\ loading = [s \in Sessions |-> TRUE]
    /\ snap = [s \in Sessions |-> Null]
    /\ tgCalls = [s \in Sessions |-> <<>>]
    /\ writes = <<>>
    /\ reads = [s \in Sessions |-> <<>>]
    /\ readResps = [s \in Sessions |-> <<>>]
    /\ calls = [s \in Sessions |-> NoCalls]
    /\ lastCall = [s \in Sessions |-> NoCall]
    /\ issued = [s \in Sessions |-> NoneIssued]
    /\ log = [s \in Sessions |-> <<>>]
    /\ doneBefore = [s \in Sessions |-> {}]
    /\ store0 = store

Init == InitWith({1})
InitBoot == InitWith(Sessions)

\* the context value (and its closures) exists once the provider has rendered
Mounted(s) == pc[s] # "unmounted"

\* console messages
TgUserDetected == "Telegram user detected:"
NoTgUser == "No Telegram user data available"
NotInTelegram == "Not running in Telegram WebApp environment"
FetchCreateError == "Error fetching/creating user:"
RefreshError == "Error refreshing user:"

\* ---------------------------------------------------------------- initializeAuth
\* window.Telegram?.WebApp
HasWebApp(h) == h.webApp

\* variant: the identity is accepted without looking at its id
HasIdentityNoIdCheck(tgUser) == tgUser # Null

\* tgUser && tgUser.id
HasIdentity(tgUser) == tgUser # Null /\ tgUser.id # NoId

Resolved == {t \in Sessions : pc[t] = "done" /\ user[t] # Null}

\* variant: the branch for a missing host container forgets setLoading(false)
InitializeAuthNoClear(s) ==
    /\ pc[s] = "mount"
    /\ doneBefore' = [doneBefore EXCEPT ![s] = Resolved]
    /\ IF HasWebApp(host[s])
       THEN /\ tgCalls' = [tgCalls EXCEPT ![s] = <<"ready", "expand">>]
            /\ IF HasIdentity(host[s].user)
               THEN /\ telegramUser' = [telegramUser EXCEPT ![s] = host[s].user]
                    /\ pc' = [pc EXCEPT ![s] = "lookup"]
                    /\ issued' = [issued EXCEPT ![s].lookup = @ + 1]
                    /\ log' = [log EXCEPT ![s] = Append(@, TgUserDetected)]
                    /\ UNCHANGED loading
               ELSE /\ loading' = [loading EXCEPT ![s] = FALSE]
                    /\ pc' = [pc EXCEPT ![s] = "done"]
                    /\ log' = [log EXCEPT ![s] = Append(@, NoTgUser)]
                    /\ UNCHANGED <<telegramUser, issued>>
       ELSE /\ pc' = [pc EXCEPT ![s] = "done"]
            /\ log' = [log EXCEPT ![s] = Append(@, NotInTelegram)]
            /\ UNCHANGED <<telegramUser, issued, tgCalls, loading>>
    /\ UNCHANGED <<host, fetched, created, insertReq, user, snap, store, writes,
                   reads, readResps, calls, lastCall, store0>>

\* The effect run once after the first render.  Nothing inside the try throws:
\* the host calls ready() and expand() are taken to succeed and
\* fetchOrCreateUser catches its own errors, so the catch (lines 83-85) is not
\* entered.  With an identity the function ends after the awaited
\* fetchOrCreateUser without touching `loading`.
InitializeAuth(s) ==
    /\ pc[s] = "mount"
    /\ doneBefore' = [doneBefore EXCEPT ![s] = Resolved]
    /\ IF HasWebApp(host[s])
       THEN /\ tgCalls' = [tgCalls EXCEPT ![s] = <<"ready", "expand">>]
            /\ IF HasIdentity(host[s].user)
               THEN /\ telegramUser' = [telegramUser EXCEPT ![s] = host[s].user]
                    /\ pc' = [pc EXCEPT ![s] = "lookup"]
                    /\ issued' = [issued EXCEPT ![s].lookup = @ + 1]
                    /\ log' = [log EXCEPT ![s] = Append(@, TgUserDetected)]
                    /\ UNCHANGED loading
               ELSE /\ loading' = [loading EXCEPT ![s] = FALSE]
                    /\ pc' = [pc EXCEPT ![s] = "done"]
                    /\ log' = [log EXCEPT ![s] = Append(@, NoTgUser)]
                    /\ UNCHANGED <<telegramUser, issued>>
       ELSE /\ loading' = [loading EXCEPT ![s] = FALSE]
            /\ pc' = [pc EXCEPT ![s] = "done"]
            /\ log' = [log EXCEPT ![s] = Append(@, NotInTelegram)]
            /\ UNCHANGED <<telegramUser, issued, tgCalls>>
    /\ UNCHANGED <<host, fetched, created, insertReq, user, snap, store, writes,
                   reads, readResps, calls, lastCall, store0>>

\* ---------------------------------------------------------------- fetchOrCreateUser
\* variant: the lookup filters on the primary key instead of telegram_id
SelectByTelegramIdWrongColumn(st, tid) == {r \in st : r.id = tid}

\* .from('users').select('*').eq('telegram_id', tgUser.id)
SelectByTelegramId(st, tid) == {r \in st : r.telegram_id = tid}

\* .maybeSingle(): no row is null, one row is the row, more rows is an error
MaybeSingle(rows) ==
    IF rows = {} THEN Ok(Null)
    ELSE IF Cardinality(rows) = 1 THEN Ok(CHOOSE r \in rows : TRUE)
    ELSE Err

\* the backend serves the lookup, or the call fails
LookupServe(s) ==
    /\ pc[s] = "lookup"
    /\ \/ fetched' = [fetched EXCEPT ![s] =
                         MaybeSingle(SelectByTelegramId(store, host[s].user.id))]
       \/ fetched' = [fetched EXCEPT ![s] = Err]
    /\ pc' = [pc EXCEPT ![s] = "lookupResp"]
    /\ UNCHANGED <<host, created, insertReq, user, telegramUser, loading, snap,
                   tgCalls, store, writes, reads, readResps, calls, lastCall,
                   issued, doneBefore, store0, log>>

\* an optional field left undefined is dropped from the request body: NULL column
ToColumn(v) == IF v = Undefined THEN DbNull ELSE v

\* variant: a new user starts at level 0
InsertPayloadLevelZero(tgUser) ==
    [telegram_id |-> tgUser.id,
     username |-> ToColumn(tgUser.username),
     first_name |-> ToColumn(tgUser.first_name),
     last_name |-> ToColumn(tgUser.last_name),
     points |-> 0,
     level |-> 0]

\* the object handed to .insert()
InsertPayload(tgUser) ==
    [telegram_id |-> tgUser.id,
     username |-> ToColumn(tgUser.username),
     first_name |-> ToColumn(tgUser.first_name),
     last_name |-> ToColumn(tgUser.last_name),
     points |-> 0,
     level |-> 1]

\* variant: fetchError is not thrown, a failed lookup falls through to the insert
LookupReturnNoThrow(s) ==
    /\ pc[s] = "lookupResp"
    /\ IF fetched[s].data # Null
       THEN /\ user' = [user EXCEPT ![s] = fetched[s].data]
            /\ pc' = [pc EXCEPT ![s] = "done"]
            /\ UNCHANGED <<insertReq, issued, log>>
       ELSE /\ insertReq' = [insertReq EXCEPT ![s] = InsertPayload(host[s].user)]
            /\ issued' = [issued EXCEPT ![s].create = @ + 1]
            /\ pc' = [pc EXCEPT ![s] = "insert"]
            /\ UNCHANGED <<user, log>>
    /\ UNCHANGED <<host, fetched, created, telegramUser, loading, snap, tgCalls,
                   store, writes, reads, readResps, calls, lastCall, doneBefore,
                   store0>>

\* variant: an existing record gets the host's display fields copied over it
LookupReturnRecopy(s) ==
    /\ pc[s] = "lookupResp"
    /\ IF fetched[s].error
       THEN /\ pc' = [pc EXCEPT ![s] = "done"]
            /\ log' = [log EXCEPT ![s] = Append(@, FetchCreateError)]
            /\ UNCHANGED <<user, insertReq, issued>>
       ELSE IF fetched[s].data # Null
       THEN /\ user' = [user EXCEPT ![s] =
                           [fetched[s].data EXCEPT
                               !.username = ToColumn(host[s].user.username),
                               !.first_name = ToColumn(host[s].user.first_name),
                               !.last_name = ToColumn(host[s].user.last_name)]]
            /\ pc' = [pc EXCEPT ![s] = "done"]
            /\ UNCHANGED <<insertReq, issued, log>>
       ELSE /\ insertReq' = [insertReq EXCEPT ![s] = InsertPayload(host[s].user)]
            /\ issued' = [issued EXCEPT ![s].create = @ + 1]
            /\ pc' = [pc EXCEPT ![s] = "insert"]
            /\ UNCHANGED <<user, log>>
    /\ UNCHANGED <<host, fetched, created, telegramUser, loading, snap, tgCalls,
                   store, writes, reads, readResps, calls, lastCall, doneBefore,
                   store0>>

\* variant: the error is rethrown to initializeAuth, whose catch clears `loading`
LookupReturnClearsLoading(s) ==
    /\ pc[s] = "lookupResp"
    /\ IF fetched[s].error
       THEN /\ pc' = [pc EXCEPT ![s] = "done"]
            /\ log' = [log EXCEPT ![s] = Append(@, FetchCreateError)]
            /\ loading' = [loading EXCEPT ![s] = FALSE]
            /\ UNCHANGED <<user, insertReq, issued>>
       ELSE IF fetched[s].data # Null
       THEN /\ user' = [user EXCEPT ![s] = fetched[s].data]
            /\ pc' = [pc EXCEPT ![s] = "done"]
            /\ UNCHANGED <<insertReq, issued, log, loading>>
       ELSE /\ insertReq' = [insertReq EXCEPT ![s] = InsertPayload(host[s].user)]
            /\ issued' = [issued EXCEPT ![s].create = @ + 1]
            /\ pc' = [pc EXCEPT ![s] = "insert"]
            /\ UNCHANGED <<user, log, loading>>
    /\ UNCHANGED <<host, fetched, created, telegramUser, snap, tgCalls,
                   store, writes, reads, readResps, calls, lastCall, doneBefore,
                   store0>>

\* the continuation after the awaited lookup
LookupReturn(s) ==
    /\ pc[s] = "lookupResp"
    /\ IF fetched[s].error
       THEN /\ pc' = [pc EXCEPT ![s] = "done"]
            /\ log' = [log EXCEPT ![s] = Append(@, FetchCreateError)]
            /\ UNCHANGED <<user, insertReq, issued>>
       ELSE IF fetched[s].data # Null
       THEN /\ user' = [user EXCEPT ![s] = fetched[s].data]
            /\ pc' = [pc EXCEPT ![s] = "done"]
            /\ UNCHANGED <<insertReq, issued, log>>
       ELSE /\ insertReq' = [insertReq EXCEPT ![s] = InsertPayload(host[s].user)]
            /\ issued' = [issued EXCEPT ![s].create = @ + 1]
            /\ pc' = [pc EXCEPT ![s] = "insert"]
            /\ UNCHANGED <<user, log>>
    /\ UNCHANGED <<host, fetched, created, telegramUser, loading, snap, tgCalls,
                   store, writes, reads, readResps, calls, lastCall, doneBefore,
                   store0>>

\* users.telegram_id is unique: a second row for the same telegram_id is refused
TelegramIdTaken(st, tid) == \E r \in st : r.telegram_id = tid

RECURSIVE MaxId(_)
MaxId(st) ==
    IF st = {} THEN 0
    ELSE LET r == CHOOSE x \in st : TRUE
             m == MaxId(st \ {r})
         IN IF r.id > m THEN r.id ELSE m

\* the row the backend stores for a payload: the payload plus the assigned id
Inserted(st, p) ==
    Row(MaxId(st) + 1, p.telegram_id, p.username, p.first_name, p.last_name,
        p.points, p.level)

\* the backend serves the insert (.insert(...).select().single()), or it fails
InsertServe(s) ==
    /\ pc[s] = "insert"
    /\ \/ /\ ~TelegramIdTaken(store, insertReq[s].telegram_id)
          /\ store' = store \cup {Inserted(store, insertReq[s])}
          /\ created' = [created EXCEPT ![s] = Ok(Inserted(store, insertReq[s]))]
       \/ /\ created' = [created EXCEPT ![s] = Err]
          /\ UNCHANGED store
    /\ pc' = [pc EXCEPT ![s] = "insertResp"]
    /\ UNCHANGED <<host, fetched, insertReq, user, telegramUser, loading, snap,
                   tgCalls, writes, reads, readResps, calls, lastCall, issued,
                   doneBefore, store0, log>>

\* the continuation after the awaited insert
InsertReturn(s) ==
    /\ pc[s] = "insertResp"
    /\ IF created[s].error
       THEN /\ log' = [log EXCEPT ![s] = Append(@, FetchCreateError)]
            /\ UNCHANGED user
       ELSE /\ user' = [user EXCEPT ![s] = created[s].data]
            /\ UNCHANGED log
    /\ pc' = [pc EXCEPT ![s] = "done"]
    /\ UNCHANGED <<host, fetched, created, insertReq, telegramUser, loading, snap,
                   tgCalls, store, writes, reads, readResps, calls, lastCall,
                   issued, doneBefore, store0>>

\* ---------------------------------------------------------------- render
\* the provider re-renders: the context value gets closures over the new state
Render(s) ==
    /\ snap[s] # user[s]
    /\ snap' = [snap EXCEPT ![s] = user[s]]
    /\ UNCHANGED <<host, pc, fetched, created, insertReq, user, telegramUser,
                   loading, tgCalls, store, writes, reads, readResps, calls,
                   lastCall, issued, doneBefore, store0, log>>

\* ---------------------------------------------------------------- refreshUser
\* .from('users').select('*').eq('id', user.id)
SelectById(st, i) == {r \in st : r.id = i}

\* .single(): exactly one row, anything else is an error
Single(rows) ==
    IF Cardinality(rows) = 1 THEN Ok(CHOOSE r \in rows : TRUE) ELSE Err

\* variant: the `if (!user) return` guard is missing, the id asked for is undefined
RefreshUserNoGuard(s) ==
    /\ Mounted(s)
    /\ RefreshCalls < MaxRefresh
    /\ calls' = [calls EXCEPT ![s].refresh = @ + 1]
    /\ lastCall' = [lastCall EXCEPT ![s] = RefreshCall]
    /\ reads' = [reads EXCEPT ![s] =
                     Append(@, IF snap[s] = Null THEN NoId ELSE snap[s].id)]
    /\ issued' = [issued EXCEPT ![s].read = @ + 1]
    /\ UNCHANGED <<host, pc, fetched, created, insertReq, user, telegramUser,
                   loading, snap, tgCalls, store, writes, readResps, doneBefore,
                   store0, log>>

RefreshUser(s) ==
    /\ Mounted(s)
    /\ RefreshCalls < MaxRefresh
    /\ calls' = [calls EXCEPT ![s].refresh = @ + 1]
    /\ lastCall' = [lastCall EXCEPT ![s] = RefreshCall]
    /\ IF snap[s] = Null
       THEN UNCHANGED <<reads, issued>>
       ELSE /\ reads' = [reads EXCEPT ![s] = Append(@, snap[s].id)]
            /\ issued' = [issued EXCEPT ![s].read = @ + 1]
    /\ UNCHANGED <<host, pc, fetched, created, insertReq, user, telegramUser,
                   loading, snap, tgCalls, store, writes, readResps, doneBefore,
                   store0, log>>

\* the backend serves one of the selects in flight, or the call fails
RefreshServe(s) ==
    \E i \in 1..Len(reads[s]) :
        /\ \/ readResps' = [readResps EXCEPT ![s] =
                               Append(@, Single(SelectById(store, reads[s][i])))]
           \/ readResps' = [readResps EXCEPT ![s] = Append(@, Err)]
        /\ reads' = [reads EXCEPT ![s] = RemoveAt(@, i)]
        /\ UNCHANGED <<host, pc, fetched, created, insertReq, user, telegramUser,
                       loading, snap, tgCalls, store, writes, calls, lastCall,
                       issued, doneBefore, store0, log>>

\* variant: setUser(data) runs before the error is looked at
RefreshReturnNoCheck(s) ==
    \E i \in 1..Len(readResps[s]) :
        /\ user' = [user EXCEPT ![s] = readResps[s][i].data]
        /\ IF readResps[s][i].error
           THEN log' = [log EXCEPT ![s] = Append(@, RefreshError)]
           ELSE UNCHANGED log
        /\ readResps' = [readResps EXCEPT ![s] = RemoveAt(@, i)]
        /\ UNCHANGED <<host, pc, fetched, created, insertReq, telegramUser,
                       loading, snap, tgCalls, store, writes, reads, calls,
                       lastCall, issued, doneBefore, store0>>

\* variant: the continuation also clears `loading` (a finally block)
RefreshReturnClearsLoading(s) ==
    \E i \in 1..Len(readResps[s]) :
        /\ IF readResps[s][i].error
           THEN /\ log' = [log EXCEPT ![s] = Append(@, RefreshError)]
                /\ UNCHANGED user
           ELSE /\ user' = [user EXCEPT ![s] = readResps[s][i].data]
                /\ UNCHANGED log
        /\ readResps' = [readResps EXCEPT ![s] = RemoveAt(@, i)]
        /\ loading' = [loading EXCEPT ![s] = FALSE]
        /\ UNCHANGED <<host, pc, fetched, created, insertReq, telegramUser,
                       snap, tgCalls, store, writes, reads, calls,
                       lastCall, issued, doneBefore, store0>>

\* variant: a fetched row is dropped while an update is still in flight
RefreshReturnSkipsWhenDirty(s) ==
    \E i \in 1..Len(readResps[s]) :
        /\ IF readResps[s][i].error
           THEN /\ log' = [log EXCEPT ![s] = Append(@, RefreshError)]
                /\ UNCHANGED user
           ELSE /\ user' = [user EXCEPT ![s] =
                               IF writes = <<>> THEN readResps[s][i].data ELSE @]
                /\ UNCHANGED log
        /\ readResps' = [readResps EXCEPT ![s] = RemoveAt(@, i)]
        /\ UNCHANGED <<host, pc, fetched, created, insertReq, telegramUser,
                       loading, snap, tgCalls, store, writes, reads, calls,
                       lastCall, issued, doneBefore, store0>>

\* the continuation after the awaited select
RefreshReturn(s) ==
    \E i \in 1..Len(readResps[s]) :
        /\ IF readResps[s][i].error
           THEN /\ log' = [log EXCEPT ![s] = Append(@, RefreshError)]
                /\ UNCHANGED user
           ELSE /\ user' = [user EXCEPT ![s] = readResps[s][i].data]
                /\ UNCHANGED log
        /\ readResps' = [readResps EXCEPT ![s] = RemoveAt(@, i)]
        /\ UNCHANGED <<host, pc, fetched, created, insertReq, telegramUser,
                       loading, snap, tgCalls, store, writes, reads, calls,
                       lastCall, issued, doneBefore, store0>>

\* ---------------------------------------------------------------- updateUserPoints
\* variant: the quotient is truncated toward zero (Math.trunc, or | 0)
NewLevelTruncated(newPoints) ==
    IF newPoints >= 0 THEN (newPoints \div 100) + 1
    ELSE 1 - ((0 - newPoints) \div 100)

\* variant: the level is kept at 1 or above
NewLevelAtLeastOne(newPoints) ==
    IF newPoints < 0 THEN 1 ELSE (newPoints \div 100) + 1

\* Math.floor(newPoints / 100) + 1
NewLevel(newPoints) == (newPoints \div 100) + 1

\* { ...user, points: newPoints, level: newLevel }
WithPoints(u, newPoints) ==
    [u EXCEPT !.points = newPoints, !.level = NewLevel(newPoints)]

\* variant: an absent user counts as zero points (user?.points ?? 0)
UpdateUserPointsNoGuard(s, points) ==
    /\ Mounted(s)
    /\ UpdateCalls < MaxUpdates
    /\ calls' = [calls EXCEPT ![s].update = @ + 1]
    /\ lastCall' = [lastCall EXCEPT ![s] = UpdateCall(points)]
    /\ IF snap[s] # Null
       THEN /\ user' = [user EXCEPT ![s] =
                           [snap[s] EXCEPT !.points = snap[s].points + points,
                                           !.level = ((snap[s].points + points) \div 100) + 1]]
            /\ writes' = Append(writes,
                                [id |-> snap[s].id,
                                 points |-> snap[s].points + points,
                                 level |-> ((snap[s].points + points) \div 100) + 1])
       ELSE /\ user' = user
            /\ writes' = Append(writes,
                                [id |-> NoId, points |-> points,
                                 level |-> (points \div 100) + 1])
    /\ issued' = [issued EXCEPT ![s].write = @ + 1]
    /\ UNCHANGED <<host, pc, fetched, created, insertReq, telegramUser, loading,
                   snap, tgCalls, store, reads, readResps, doneBefore, store0, log>>

UpdateUserPoints(s, points) ==
    /\ Mounted(s)
    /\ UpdateCalls < MaxUpdates
    /\ calls' = [calls EXCEPT ![s].update = @ + 1]
    /\ lastCall' = [lastCall EXCEPT ![s] = UpdateCall(points)]
    /\ IF snap[s] # Null
       THEN /\ user' = [user EXCEPT ![s] =
                           WithPoints(snap[s], snap[s].points + points)]
            /\ writes' = Append(writes,
                                [id |-> snap[s].id,
                                 points |-> snap[s].points + points,
                                 level |-> NewLevel(snap[s].points + points)])
            /\ issued' = [issued EXCEPT ![s].write = @ + 1]
       ELSE UNCHANGED <<user, writes, issued>>
    /\ UNCHANGED <<host, pc, fetched, created, insertReq, telegramUser, loading,
                   snap, tgCalls, store, reads, readResps, doneBefore, store0, log>>

\* variant: the update writes the points and leaves the level column alone
UpdatedPointsOnly(st, w) ==
    {IF r.id = w.id THEN [r EXCEPT !.points = w.points] ELSE r : r \in st}

\* UPDATE users SET points, level WHERE id
Updated(st, w) ==
    {IF r.id = w.id THEN [r EXCEPT !.points = w.points, !.level = w.level] ELSE r :
        r \in st}

\* the backend applies one of the updates in flight; nobody reads the result
WriteApply ==
    \E i \in 1..Len(writes) :
        /\ store' = Updated(store, writes[i])
        /\ writes' = RemoveAt(writes, i)
        /\ UNCHANGED <<host, pc, fetched, created, insertReq, user, telegramUser,
                       loading, snap, tgCalls, reads, readResps, calls, lastCall,
                       issued, doneBefore, store0, log>>

\* variant: a failed update is noticed and the local user is reset to the row
WriteFailRollback ==
    \E i \in 1..Len(writes) :
        /\ writes' = RemoveAt(writes, i)
        /\ user' = [s \in Sessions |->
                       IF user[s] # Null /\ user[s].id = writes[i].id
                       THEN CHOOSE r \in store : r.id = writes[i].id
                       ELSE user[s]]
        /\ UNCHANGED <<host, pc, fetched, created, insertReq, telegramUser,
                       loading, snap, tgCalls, store, reads, readResps, calls,
                       lastCall, issued, doneBefore, store0, log>>

\* one of the updates in flight is lost; nobody reads the error
WriteFail ==
    \E i \in 1..Len(writes) :
        /\ writes' = RemoveAt(writes, i)
        /\ UNCHANGED <<host, pc, fetched, created, insertReq, user, telegramUser,
                       loading, snap, tgCalls, store, reads, readResps, calls,
                       lastCall, issued, doneBefore, store0, log>>

\* ---------------------------------------------------------------- specification
Next ==
    \/ \E s \in Sessions : InitializeAuth(s)
    \/ \E s \in Sessions : LookupServe(s)
    \/ \E s \in Sessions : LookupReturn(s)
    \/ \E s \in Sessions : InsertServe(s)
    \/ \E s \in Sessions : InsertReturn(s)
    \/ \E s \in Sessions : Render(s)
    \/ \E s \in Sessions : RefreshUser(s)
    \/ \E s \in Sessions : RefreshServe(s)
    \/ \E s \in Sessions : RefreshReturn(s)
    \/ \E s \in Sessions, d \in Deltas : UpdateUserPoints(s, d)
    \/ WriteApply
    \/ WriteFail

Spec == Init /\ [][Next]_vars

\* the bootstrap alone, in every session
NextBoot ==
    \/ \E s \in Sessions : InitializeAuth(s)
    \/ \E s \in Sessions : LookupServe(s)
    \/ \E s \in Sessions : LookupReturn(s)
    \/ \E s \in Sessions : InsertServe(s)
    \/ \E s \in Sessions : InsertReturn(s)

SpecBoot == InitBoot /\ [][NextBoot]_vars

\* every update reaches the backend and refreshUser is never called
NextReliable ==
    \/ \E s \in Sessions : InitializeAuth(s)
    \/ \E s \in Sessions : LookupServe(s)
    \/ \E s \in Sessions : LookupReturn(s)
    \/ \E s \in Sessions : InsertServe(s)
    \/ \E s \in Sessions : InsertReturn(s)
    \/ \E s \in Sessions : Render(s)
    \/ \E s \in Sessions, d \in Deltas : UpdateUserPoints(s, d)
    \/ WriteApply

SpecReliable == Init /\ [][NextReliable]_vars

\* ---------------------------------------------------------------- properties
\* session s runs in a host container whose identity has an id
HasTgId(s) == HasWebApp(host[s]) /\ HasIdentity(host[s].user)

\* l = floor(p / 100) + 1, stated without division
IsLevelOf(l, p) == 100 * (l - 1) <= p /\ p < 100 * l

\* the display columns a row gets from an identity: a missing field is NULL
CopiedFrom(row, tgUser) ==
    /\ row.username = (IF tgUser.username = Undefined THEN DbNull ELSE tgUser.username)
    /\ row.first_name =
           (IF tgUser.first_name = Undefined THEN DbNull ELSE tgUser.first_name)
    /\ row.last_name = (IF tgUser.last_name = Undefined THEN DbNull ELSE tgUser.last_name)

SameIdentityFields(u, v) ==
    /\ u.id = v.id
    /\ u.telegram_id = v.telegram_id
    /\ u.username = v.username
    /\ u.first_name = v.first_name
    /\ u.last_name = v.last_name

\* C1: once initialize has resolved the user (host present, identity with an
\* id, lookup and create succeeded), loading has become false: a finished
\* initialize with a user present has loading = false.
C1_ResolvedImpliesNotLoading ==
    \A s \in Sessions : (pc[s] = "done" /\ user[s] # Null) => loading[s] = FALSE

\* C2: when a session runs initialize after another session with the same
\* identity id has completed successfully, it issues no create request, the
\* table holds exactly one row with that telegram_id, and it resolves to the
\* same backend id as the first.
C2_SecondRunReusesRecord ==
    \A a, b \in Sessions :
        (a # b /\ a \in doneBefore[b] /\ HasTgId(b)
              /\ host[a].user.id = host[b].user.id) =>
            /\ issued[b].create = 0
            /\ Cardinality({r \in store : r.telegram_id = host[b].user.id}) = 1
            /\ (pc[b] = "done" /\ ~fetched[b].error) =>
                   (user[b] # Null /\ user[b].id = user[a].id)

\* the first run created the record and the second run, started after it, found it
C2_Witness ==
    \E a, b \in Sessions :
        /\ a # b /\ a \in doneBefore[b] /\ HasTgId(b)
        /\ host[a].user.id = host[b].user.id
        /\ issued[a].create = 1
        /\ pc[b] = "done" /\ user[b] # Null

\* the create requests issued so far for a telegram_id, over all sessions
CreatesFor(tid) ==
    SumOver([s \in Sessions |->
                IF HasTgId(s) /\ host[s].user.id = tid THEN issued[s].create ELSE 0],
            Sessions)

TelegramIds == {h.user.id : h \in {x \in Hosts : HasWebApp(x) /\ HasIdentity(x.user)}}

\* C3 as stated: in every interleaving of the sessions' initialize runs at most
\* one create request is ever issued for a telegram_id.
C3_AtMostOneCreatePerTelegramId == \A tid \in TelegramIds : CreatesFor(tid) <= 1

\* C3 as amended: every initialize run issues at most one create request, and
\* only after its own lookup was answered without error and without a record.
C3_CreateOnlyAfterEmptyLookup ==
    \A s \in Sessions :
        /\ issued[s].create <= 1
        /\ issued[s].create = 1 =>
               (fetched[s].settled /\ ~fetched[s].error /\ fetched[s].data = Null)

\* two sessions with the same identity id have each issued a create request
C3_Witness ==
    \E a, b \in Sessions :
        /\ a # b /\ HasTgId(a) /\ HasTgId(b)
        /\ host[a].user.id = host[b].user.id
        /\ issued[a].create = 1 /\ issued[b].create = 1

\* a step of session s in which a consumer called updateUserPoints
UpdateCalled(s) == calls'[s].update = calls[s].update + 1

\* a step of session s in which a consumer called refreshUser
RefreshCalled(s) == calls'[s].refresh = calls[s].refresh + 1

C5_ExistingRecordAdopted ==
    [][\A s \in Sessions :
          /\ (pc[s] = "lookup" /\ pc'[s] = "lookupResp" /\ ~fetched'[s].error
                 /\ \E r \in store : r.telegram_id = host[s].user.id) =>
                 /\ fetched'[s].data \in store
                 /\ fetched'[s].data.telegram_id = host[s].user.id
                 /\ store' = store
          /\ (pc[s] = "lookupResp" /\ pc'[s] # "lookupResp" /\ ~fetched[s].error
                 /\ fetched[s].data # Null) =>
                 /\ pc'[s] = "done"
                 /\ user'[s] = fetched[s].data
                 /\ user'[s] \in store
                 /\ store' = store
                 /\ writes' = writes
                 /\ issued'[s] = issued[s]
                 /\ issued[s].create = 0 /\ issued[s].write = 0]_vars

\* the existing row was adopted although the identity's display fields differ
C5_Witness ==
    \E s \in Sessions :
        /\ host[s] = Host(Ann)
        /\ pc[s] = "done"
        /\ user[s] = Row(7, 1, "ana", "Ana", DbNull, 250, 3)
        /\ user[s] \in store
        /\ issued[s].create = 0

\* C6: when the identity's id matches no row and the remote calls succeed,
\* exactly one create request is issued, carrying telegram_id = h.id, the
\* display fields of h, points = 0 and level = 1, and user becomes the row the
\* backend returns, with the id the backend assigned.
C6_NewRecordCreated ==
    [][\A s \in Sessions :
          /\ (pc[s] = "lookupResp" /\ ~fetched[s].error /\ fetched[s].data = Null
                 /\ pc'[s] # "lookupResp") =>
                 /\ pc'[s] = "insert"
                 /\ issued[s].create = 0 /\ issued'[s].create = 1
                 /\ insertReq'[s].telegram_id = host[s].user.id
                 /\ CopiedFrom(insertReq'[s], host[s].user)
                 /\ insertReq'[s].points = 0 /\ insertReq'[s].level = 1
          /\ (pc[s] = "insertResp" /\ ~created[s].error /\ pc'[s] # "insertResp") =>
                 /\ pc'[s] = "done"
                 /\ issued'[s].create = 1
                 /\ user'[s] = created[s].data
                 /\ user'[s] \in store
                 /\ \A r \in store : r.id = user'[s].id => r = user'[s]
                 /\ user'[s].telegram_id = host[s].user.id
                 /\ CopiedFrom(user'[s], host[s].user)
                 /\ user'[s].points = 0 /\ user'[s].level = 1]_vars

\* identity {id: 1, first_name: "Ana"} with an empty table: the created row
C6_Witness ==
    \E s \in Sessions :
        /\ host[s] = Host(Ana)
        /\ pc[s] = "done"
        /\ issued[s].create = 1
        /\ user[s] = Row(1, 1, "ana", "Ana", DbNull, 0, 1)
        /\ loading[s]

\* C7: with the host container absent, initialize sets loading to false, user
\* and telegramUser stay absent in every later state, and no remote request
\* (lookup, create, refresh, update) and no host call is ever issued.
C7_NoHostNoIdentity ==
    \A s \in Sessions :
        (Mounted(s) /\ host[s] = NoHost) =>
            /\ user[s] = Null
            /\ telegramUser[s] = Null
            /\ issued[s] = NoneIssued
            /\ reads[s] = <<>> /\ readResps[s] = <<>> /\ writes = <<>>
            /\ tgCalls[s] = <<>>
            /\ pc[s] \in {"mount", "done"}
            /\ pc[s] = "done" => loading[s] = FALSE

\* outside the host, after initialize and after calls of both functions
C7_Witness ==
    \E s \in Sessions :
        /\ host[s] = NoHost
        /\ pc[s] = "done"
        /\ ~loading[s]
        /\ calls[s].update >= 1 /\ calls[s].refresh >= 1

\* C8: updateUserPoints(delta) called while user is absent changes nothing:
\* user, telegramUser and loading are unchanged and no update request is issued.
C8_UpdateOnAbsentUserIsNoOp ==
    [][\A s \in Sessions :
          (UpdateCalled(s) /\ user[s] = Null) =>
              /\ user' = user
              /\ telegramUser' = telegramUser
              /\ loading' = loading
              /\ writes' = writes
              /\ store' = store
              /\ issued' = issued]_vars

\* both a negative and a positive delta were given to a session without a user
C8_Witness ==
    \E s \in Sessions :
        /\ user[s] = Null
        /\ calls[s].update = 2
        /\ lastCall[s] = UpdateCall(-120)
        /\ writes = <<>> /\ issued[s].write = 0

\* C9: refreshUser called while user is absent changes nothing and issues no
\* remote read, also while the lookup or the create of initialize is in flight.
C9_RefreshOnAbsentUserIsNoOp ==
    [][\A s \in Sessions :
          (RefreshCalled(s) /\ user[s] = Null) =>
              /\ reads' = reads
              /\ readResps' = readResps
              /\ issued' = issued
              /\ user' = user
              /\ telegramUser' = telegramUser
              /\ loading' = loading
              /\ store' = store]_vars

\* refreshUser was called while the create of initialize is in flight
C9_Witness ==
    \E s \in Sessions :
        /\ pc[s] = "insert"
        /\ lastCall[s] = RefreshCall
        /\ user[s] = Null
        /\ issued[s].read = 0 /\ reads[s] = <<>>

\* C10: the continuation of refreshUser leaves user as it is when the read
\* failed (the failure is logged), and replaces user by the fetched row, which
\* is the row of the table with the id asked for, when the read succeeded.
C10_RefreshReturn ==
    [][\A s \in Sessions :
          /\ Len(readResps'[s]) > Len(readResps[s]) =>
                 LET r == readResps'[s][Len(readResps'[s])]
                 IN  ~r.error =>
                         /\ r.data \in store
                         /\ \E i \in 1..Len(reads[s]) : r.data.id = reads[s][i]
          /\ Len(readResps'[s]) < Len(readResps[s]) =>
                 \E i \in 1..Len(readResps[s]) :
                     /\ readResps'[s] = RemoveAt(readResps[s], i)
                     /\ IF readResps[s][i].error
                        THEN /\ user' = user
                             /\ log'[s] = Append(log[s], RefreshError)
                        ELSE /\ user'[s] = readResps[s][i].data
                             /\ log' = log]_vars

\* a failed refresh was logged and the local user kept its optimistic points
C10_Witness ==
    \E s \in Sessions :
        /\ Len(log[s]) > 0 /\ log[s][Len(log[s])] = RefreshError
        /\ user[s] # Null
        /\ calls[s].update >= 1
        /\ user[s] \notin store

\* C11: no step of refreshUser (the call, the select being served, the
\* continuation on success or on failure, the no-op on an absent user) changes
\* telegramUser or loading
C11_RefreshKeepsTelegramUserAndLoading ==
    [][\A s \in Sessions :
          (RefreshCalled(s) \/ reads'[s] # reads[s] \/ readResps'[s] # readResps[s])
              => /\ telegramUser' = telegramUser
                 /\ loading' = loading]_vars

\* a refresh ran to its end and replaced the user; the identity is still the
\* host's and loading is still what the bootstrap left
C11_Witness ==
    \E s \in Sessions :
        /\ calls[s].refresh = 1
        /\ issued[s].read = 1
        /\ reads[s] = <<>> /\ readResps[s] = <<>>
        /\ user[s] # Null /\ user[s] # snap[s]
        /\ telegramUser[s] = host[s].user
        /\ loading[s]

\* C12: updateUserPoints sets the local points and level in the step of the
\* call, before the write is even served; the write is only put in flight; and
\* the outcome of a write (applied or lost) changes nothing of the local state
C12_LocalUpdateIndependentOfWrite ==
    [][/\ \A s \in Sessions :
              (UpdateCalled(s) /\ snap[s] # Null) =>
                  /\ user'[s].points = snap[s].points + lastCall'[s].arg
                  /\ IsLevelOf(user'[s].level, user'[s].points)
                  /\ store' = store
                  /\ Len(writes') = Len(writes) + 1
                  /\ writes'[Len(writes')].id = snap[s].id
                  /\ writes'[Len(writes')].points = user'[s].points
                  /\ writes'[Len(writes')].level = user'[s].level
       /\ Len(writes') < Len(writes) =>
              /\ user' = user
              /\ telegramUser' = telegramUser
              /\ loading' = loading
              /\ snap' = snap]_vars

\* 120 awarded on {points 250, level 3}: the write is gone, the table still
\* holds 250 and level 3, and the local user is {370, 4}
C12_Witness ==
    \E s \in Sessions :
        /\ user[s] # Null
        /\ user[s].points = 370 /\ user[s].level = 4
        /\ calls[s].update = 1 /\ calls[s].refresh = 0
        /\ issued[s].write = 1
        /\ writes = <<>>
        /\ \E r \in store : r.id = user[s].id /\ r.points = 250 /\ r.level = 3

\* C13: when the lookup or the create fails the error is caught and logged
\* inside fetchOrCreateUser: user stays absent, telegramUser keeps the
\* identity, loading stays true, and nothing is retried
C13_FetchCreateFailure ==
    \A s \in Sessions :
        (pc[s] = "done" /\ (fetched[s].error \/ created[s].error)) =>
            /\ user[s] = Null
            /\ telegramUser[s] = host[s].user
            /\ telegramUser[s] # Null
            /\ loading[s]
            /\ issued[s].lookup = 1
            /\ issued[s].create = (IF fetched[s].error THEN 0 ELSE 1)
            /\ issued[s].read = 0 /\ issued[s].write = 0
            /\ log[s] = <<TgUserDetected, FetchCreateError>>

\* the lookup found nothing and the create failed
C13_Witness ==
    \E s \in Sessions :
        /\ pc[s] = "done"
        /\ fetched[s].settled /\ ~fetched[s].error
        /\ created[s].error
        /\ loading[s]
        /\ user[s] = Null

\* C14 (as stated): wherever user is present its points are non-negative and
\* its level is at least 1, whatever deltas updateUserPoints was given
C14_PointsNonNegativeLevelPositive ==
    \A s \in Sessions :
        user[s] # Null => (user[s].points >= 0 /\ user[s].level >= 1)

\* C14 (amended): the delta is added unclamped, so the points can go below
\* zero; the level of a present user is at least 1 exactly when its points
\* are non-negative, locally and in the table
C14_LevelPositiveIffPointsNonNegative ==
    /\ \A s \in Sessions :
           user[s] # Null => (user[s].level >= 1 <=> user[s].points >= 0)
    /\ \A r \in store : r.level >= 1 <=> r.points >= 0

\* a negative delta took the user from 0 points to -120 points, level -1
C14_Witness ==
    \E s \in Sessions :
        /\ user[s] # Null
        /\ calls[s].update >= 1
        /\ user[s].points = -120
        /\ user[s].level = -1

\* C15: with a host container whose identity is absent or has no id,
\* initializeAuth calls ready and expand, sets loading to false and stops:
\* telegramUser and user stay absent and no remote call is ever issued
C15_NoIdentityStops ==
    \A s \in Sessions :
        (HasWebApp(host[s]) /\ (host[s].user = Null \/ host[s].user.id = NoId)) =>
            /\ user[s] = Null
            /\ telegramUser[s] = Null
            /\ issued[s] = NoneIssued
            /\ pc[s] \in {"mount", "done"}
            /\ pc[s] = "done" =>
                   /\ ~loading[s]
                   /\ tgCalls[s] = <<"ready", "expand">>
                   /\ log[s] = <<NoTgUser>>

\* the host carries an identity object without an id, and the bootstrap is over
C15_Witness ==
    \E s \in Sessions :
        /\ host[s] = Host(Anon)
        /\ pc[s] = "done"
        /\ ~loading[s]

\* C16: nothing orders a refresh against the detached writes: a select is
\* served from the table as it is while writes are in flight, and a successful
\* refresh puts the row it fetched in place of the local user, whatever the
\* local points are and whatever writes are in flight, touching neither the
\* table nor those writes
C16_RefreshOverwritesOptimisticState ==
    [][\A s \in Sessions :
          /\ Len(readResps'[s]) > Len(readResps[s]) =>
                 /\ writes' = writes
                 /\ store' = store
                 /\ LET r == readResps'[s][Len(readResps'[s])]
                    IN  ~r.error => r.data \in store
          /\ (Len(readResps'[s]) < Len(readResps[s]) /\ log' = log) =>
                 /\ \E i \in 1..Len(readResps[s]) :
                        /\ ~readResps[s][i].error
                        /\ user'[s] = readResps[s][i].data
                 /\ writes' = writes
                 /\ store' = store]_vars

\* the race has run to its end: one update of a non-zero delta, one refresh
\* served before the write was applied; nothing is in flight any more, the
\* local user is back at the points p the bootstrap resolved, and the table
\* holds p + delta
C16_Witness ==
    \E s \in Sessions :
        /\ calls[s].update = 1 /\ calls[s].refresh = 1
        /\ issued[s].write = 1 /\ issued[s].read = 1
        /\ writes = <<>> /\ reads[s] = <<>> /\ readResps[s] = <<>>
        /\ user[s] # Null
        /\ \E r0 \in store0, r \in store, d \in Deltas :
               /\ d # 0
               /\ r0.id = user[s].id /\ r.id = user[s].id
               /\ user[s].points = r0.points
               /\ r.points = r0.points + d

\* C17: with no refresh in between, a sequence of updateUserPoints calls
\* leaves the local points at p plus the sum of the deltas, with or without a
\* render between two calls; said of every prefix of the sequence, each call
\* adds its own delta to the points the local user has when it is made
C17_EachCallAddsItsDelta ==
    [][\A s \in Sessions :
          (UpdateCalled(s) /\ snap[s] # Null) =>
              user'[s].points = user[s].points + lastCall'[s].arg]_vars

\* C18: when every write is applied and nothing is refreshed, once no write
\* is in flight the remote record has the points and level of the local
\* user, in whatever order the writes were applied
C18_RemoteEqualsLocalWhenQuiet ==
    \A s \in Sessions :
        (user[s] # Null /\ issued[s].write >= 1 /\ writes = <<>>) =>
            \E r \in store :
                /\ r.id = user[s].id
                /\ r.points = user[s].points
                /\ r.level = user[s].level

\* C19: if every record the table starts with has level = floor(points/100)
\* + 1, then so has every record of the table and every present local user
\* in every reachable state
C19_LevelInvariantPreserved ==
    (\A r \in store0 : IsLevelOf(r.level, r.points)) =>
        /\ \A r \in store : IsLevelOf(r.level, r.points)
        /\ \A s \in Sessions :
               user[s] # Null => IsLevelOf(user[s].level, user[s].points)

\* the table started with {250, 3}; an update was applied and moved the
\* record, and the local user, to another level
C19_Witness ==
    \E s \in Sessions :
        /\ store0 # {}
        /\ \A r \in store0 : IsLevelOf(r.level, r.points)
        /\ user[s] # Null
        /\ calls[s].update >= 1
        /\ writes = <<>>
        /\ \E r0 \in store0, r \in store :
               /\ r0.id = user[s].id /\ r.id = user[s].id
               /\ r.level # r0.level
               /\ r.points = user[s].points
               /\ r.level = user[s].level

TypeOK ==
    /\ \A s \in Sessions : pc[s] \in {"unmounted", "mount", "lookup", "lookupResp", "insert",
                                      "insertResp", "done"}
    /\ \A s \in Sessions : loading[s] \in BOOLEAN
====
